---------------------------- MODULE Spec2Model ----------------------------
(***************************************************************************)
(* A model of IntPy's real interval type (ireal/ireal.py) and of its       *)
(* rational-literal parser (support/general.py).                           *)
(*                                                                         *)
(* Floats are modelled by a small binary floating-point format: a float is *)
(* an integer number of units (the smallest subnormal), the finite values  *)
(* are Finite, and NaN, +Infinity and -Infinity are separate values.       *)
(* Every float operation rounds its exact result to Finite as the rounding *)
(* mode in force when it executes tells.  Signed zeros are not             *)
(* distinguished: the code never divides by a zero of either sign without  *)
(* Python raising ZeroDivisionError.                                       *)
(***************************************************************************)
EXTENDS Integers, Sequences, FiniteSets, TLC

VARIABLES
    pc,      \* "idle": between calls; "returned": a call has just returned
    mode,    \* the process-wide floating-point rounding mode
    mode0,   \* the rounding mode observed when the last call was entered
    op,      \* the name of the last public operation called
    x,       \* the session's variable x: self, or the first argument
    y,       \* the session's variable y: other, or the second argument
    ret,     \* the last call's outcome
    buf,     \* the string handed to rational2fraction
    frac     \* what rational2fraction returned or raised

vars == <<pc, mode, mode0, op, x, y, ret, buf, frac>>

----------------------------------------------------------------------------
(* Bounds of the model *)

\* the largest exponent of the float format: normal floats are m * 2^e units
\* with m in {2, 3} and e in 0..MaxExp
MaxExp == 1

\* the longest string handed to rational2fraction
MaxLen == 5

\* the largest power of ten a literal's exponent part names
MaxPow == 4

----------------------------------------------------------------------------
(* Python integers *)

Abs(n) == IF n < 0 THEN -n ELSE n

\* Python's a % b on integers: the result has the sign of the divisor
PyMod(a, b) == IF b > 0 THEN a % b ELSE -((-a) % (-b))

\* Python 2's a / b on integers: floor division
PyDiv(a, b) == IF b > 0 THEN a \div b ELSE (-a) \div (-b)

RECURSIVE Pow10(_)
Pow10(k) == IF k = 0 THEN 1 ELSE 10 * Pow10(k - 1)

----------------------------------------------------------------------------
(* Python floats: a binary format with two significant bits *)

RECURSIVE Pow2(_)
Pow2(e) == IF e = 0 THEN 1 ELSE 2 * Pow2(e - 1)

\* the float 1.0, in units: the unit is 0.5, the only subnormal
One == 2

\* the significands of the normal floats, 1.0b and 1.1b
Mant == {2, 3}

Normals == {m * Pow2(e) : m \in Mant, e \in 0..MaxExp}
Finite == {0, 1, -1} \cup Normals \cup {-g : g \in Normals}
MaxFin == 3 * Pow2(MaxExp)
\* the power of two above MaxFin, where round-to-nearest overflows from
Over == 4 * Pow2(MaxExp)
PInf == 2 * Over
NInf == -PInf
NaN == PInf + 1
Floats == Finite \cup {PInf, NInf, NaN}

\* the last significand bit of g is 0
EvenFloat(g) == Abs(g) \notin {1} \cup {3 * Pow2(e) : e \in 0..MaxExp}

\* the rounding modes, as rounding.set_mode numbers them: to nearest,
\* toward -Infinity, toward +Infinity, toward zero
ToNearest == 0
TowardNegative == -1
TowardPositive == 1
TowardZero == 2
Modes == {ToNearest, TowardNegative, TowardPositive, TowardZero}

\* the exact value num/den units (den > 0) rounded to a float
RoundDown(num, den) ==
    IF num > MaxFin * den THEN MaxFin
    ELSE IF num < (-MaxFin) * den THEN NInf
    ELSE CHOOSE g \in Finite :
            /\ g * den <= num
            /\ \A h \in Finite : h * den <= num => h <= g

RoundUp(num, den) ==
    IF num < (-MaxFin) * den THEN -MaxFin
    ELSE IF num > MaxFin * den THEN PInf
    ELSE CHOOSE g \in Finite :
            /\ g * den >= num
            /\ \A h \in Finite : h * den >= num => h >= g

RoundNearest(num, den) ==
    IF num > MaxFin * den
    THEN (IF 2 * num >= (MaxFin + Over) * den THEN PInf ELSE MaxFin)
    ELSE IF num < (-MaxFin) * den
    THEN (IF 2 * num <= (-(MaxFin + Over)) * den THEN NInf ELSE -MaxFin)
    ELSE LET lo == RoundDown(num, den)
             hi == RoundUp(num, den)
             below == num - lo * den
             above == hi * den - num
         IN  IF below < above THEN lo
             ELSE IF above < below THEN hi
             ELSE IF EvenFloat(lo) THEN lo ELSE hi

Round(m, num, den) ==
    CASE m = TowardNegative -> RoundDown(num, den)
      [] m = TowardPositive -> RoundUp(num, den)
      [] m = TowardZero ->
            (IF num >= 0 THEN RoundDown(num, den) ELSE RoundUp(num, den))
      [] OTHER -> RoundNearest(num, den)

IsInf(a) == a \in {PInf, NInf}
Sign(a) == IF a < 0 THEN -1 ELSE IF a > 0 THEN 1 ELSE 0

\* float comparisons: every comparison with NaN is false, but !=
FEq(a, b) == a # NaN /\ b # NaN /\ a = b
FNe(a, b) == ~FEq(a, b)
FLt(a, b) == a # NaN /\ b # NaN /\ a < b
FLe(a, b) == a # NaN /\ b # NaN /\ a <= b
FGt(a, b) == FLt(b, a)
FGe(a, b) == FLe(b, a)

\* float arithmetic under rounding mode m
FNeg(a) == IF a = NaN THEN NaN ELSE -a
FAbs(a) == IF a = NaN THEN NaN ELSE Abs(a)

FAdd(a, b, m) ==
    IF a = NaN \/ b = NaN THEN NaN
    ELSE IF IsInf(a) THEN (IF b = -a THEN NaN ELSE a)
    ELSE IF IsInf(b) THEN b
    ELSE Round(m, a + b, 1)

FSub(a, b, m) == FAdd(a, FNeg(b), m)

FMul(a, b, m) ==
    IF a = NaN \/ b = NaN THEN NaN
    ELSE IF IsInf(a) \/ IsInf(b)
    THEN (IF a = 0 \/ b = 0 THEN NaN ELSE Sign(a) * Sign(b) * PInf)
    ELSE Round(m, a * b, One)

\* a / b for b # 0 (Python raises ZeroDivisionError when b = 0)
FDiv(a, b, m) ==
    IF a = NaN \/ b = NaN THEN NaN
    ELSE IF IsInf(a)
    THEN (IF IsInf(b) THEN NaN ELSE Sign(a) * Sign(b) * PInf)
    ELSE IF IsInf(b) THEN 0
    ELSE IF b > 0 THEN Round(m, a * One, b)
    ELSE Round(m, (-a) * One, -b)

\* Python's min and max of a tuple: the first element, replaced by each
\* later one that compares below (above) it
RECURSIVE PyMin(_)
PyMin(t) ==
    IF Len(t) = 1 THEN t[1]
    ELSE IF FLt(t[Len(t)], PyMin(SubSeq(t, 1, Len(t) - 1))) THEN t[Len(t)]
    ELSE PyMin(SubSeq(t, 1, Len(t) - 1))

RECURSIVE PyMax(_)
PyMax(t) ==
    IF Len(t) = 1 THEN t[1]
    ELSE IF FGt(t[Len(t)], PyMax(SubSeq(t, 1, Len(t) - 1))) THEN t[Len(t)]
    ELSE PyMax(SubSeq(t, 1, Len(t) - 1))

\* support/general.py: isnan = lambda number: number != number
isnan(number) == FNe(number, number)

----------------------------------------------------------------------------
(* support/general.py: the rational-literal parser *)

\* A Python str is a sequence of one-character strings; Python's None is
\* the value PyNone, which is no such sequence.
PyNone == <<"None">>

SignChars == {"-", "+"}
DigitChars == {"0", "1", "2", "3", "4", "5", "6", "7", "8", "9"}
PointChars == {".", ","}
ExpChars == {"e", "E"}

DigitVal(c) ==
    CASE c = "0" -> 0 [] c = "1" -> 1 [] c = "2" -> 2 [] c = "3" -> 3
      [] c = "4" -> 4 [] c = "5" -> 5 [] c = "6" -> 6 [] c = "7" -> 7
      [] c = "8" -> 8 [] c = "9" -> 9

\* int(s) for a string of decimal digits
RECURSIVE PyInt(_)
PyInt(s) ==
    IF Len(s) = 0 THEN 0
    ELSE 10 * PyInt(SubSeq(s, 1, Len(s) - 1)) + DigitVal(s[Len(s)])

\* the length of the longest run of decimal digits of s that starts at i
RECURSIVE DigitRun(_, _)
DigitRun(s, i) ==
    IF i <= Len(s) /\ s[i] \in DigitChars THEN 1 + DigitRun(s, i + 1) ELSE 0

\* _rational_number_pattern.match(s): the groups of the match, or matched
\* FALSE.  Each optional part starts with a character no earlier part can
\* consume, so the greedy left-to-right match is the only candidate.  The
\* scan goes through the pattern's parts in order; p is the position of the
\* first character not yet consumed.

\* the end of the pattern: (/(?P<denominator>.+))?$
ScanDenominator(s, p, sign, before, after, esign, exp) ==
    [matched |-> Len(before) >= 1
                    /\ (p = Len(s) + 1 \/ (p < Len(s) /\ s[p] = "/")),
     frac_sign |-> sign,
     frac_before_point |-> before,
     frac_after_point |-> after,
     exponent_sign |-> esign,
     exponent |-> exp,
     denominator |-> IF p < Len(s) /\ s[p] = "/"
                     THEN SubSeq(s, p + 1, Len(s)) ELSE PyNone]

\* the digits of the exponent, which start at pe; without a digit the
\* whole exponent part matches nothing and the scan is back at p
ScanExponentDigits(s, p, pe, sign, before, after) ==
    IF DigitRun(s, pe) >= 1
    THEN ScanDenominator(s, pe + DigitRun(s, pe), sign, before, after,
             IF pe = p + 2 THEN <<s[p + 1]>> ELSE PyNone,
             SubSeq(s, pe, pe + DigitRun(s, pe) - 1))
    ELSE ScanDenominator(s, p, sign, before, after, PyNone, PyNone)

\* ([eE](?P<exponent_sign>[-+])?(?P<exponent>\d+))?
ScanExponent(s, p, sign, before, after) ==
    IF p <= Len(s) /\ s[p] \in ExpChars
    THEN ScanExponentDigits(s, p,
             IF p + 1 <= Len(s) /\ s[p + 1] \in SignChars
             THEN p + 2 ELSE p + 1,
             sign, before, after)
    ELSE ScanDenominator(s, p, sign, before, after, PyNone, PyNone)

\* ([.,](?P<frac_after_point>\d*))?
ScanPoint(s, p, sign, before) ==
    IF p <= Len(s) /\ s[p] \in PointChars
    THEN ScanExponent(s, p + 1 + DigitRun(s, p + 1), sign, before,
             SubSeq(s, p + 1, p + DigitRun(s, p + 1)))
    ELSE ScanExponent(s, p, sign, before, PyNone)

\* (?P<frac_before_point>\d+)
ScanDigits(s, p, sign) ==
    ScanPoint(s, p + DigitRun(s, p), sign,
              SubSeq(s, p, p + DigitRun(s, p) - 1))

\* ^(?P<frac_sign>[-+])?
_rational_number_pattern(s) ==
    IF Len(s) >= 1 /\ s[1] \in SignChars
    THEN ScanDigits(s, 2, <<s[1]>>)
    ELSE ScanDigits(s, 1, PyNone)

RECURSIVE _mdc(_, _)
_mdc(a, b) == IF PyMod(a, b) # 0 THEN _mdc(b, PyMod(a, b)) ELSE b

Fraction(n, d) == [exc |-> "none", num |-> n, den |-> d]
FractionError(e) == [exc |-> e, num |-> 0, den |-> 0]

\* (-1) ** sign
MinusOneTo(sign) == IF sign = 1 THEN -1 ELSE 1

\* rational2fraction returning ret as it is, without dividing by the mdc
UnreducedFraction(ret0, ret1) == Fraction(ret0, ret1)

\* lines 119-121 of rational2fraction: ret reduced by the mdc of its parts
ReducedFraction(ret0, ret1) ==
    Fraction(PyDiv(ret0, _mdc(ret0, ret1)), PyDiv(ret1, _mdc(ret0, ret1)))

\* lines 114-118 of rational2fraction: ret from new_frac, new_exponent and
\* the fraction of the denominator group
ScaledFraction(new_frac, new_exponent, denominator) ==
    IF new_exponent < 0
    THEN ReducedFraction(new_frac * denominator.den,
                         Pow10(-new_exponent) * denominator.num)
    ELSE ReducedFraction(new_frac * Pow10(new_exponent) * denominator.den,
                         denominator.num)

\* lines 101-113 of rational2fraction: the groups as numbers
PartsFraction(frac_sign, before, after, exponent_sign, exponent, denominator) ==
    ScaledFraction(
        MinusOneTo(frac_sign) * PyInt(before \o after),
        MinusOneTo(exponent_sign) * PyInt(exponent) - Len(after),
        denominator)

\* rational2fraction with the zero test of line 109 also applied to the
\* numerator digits, so that a zero numerator fails like a zero denominator
fraction_of_parts_zero_numerator(rational_parts, denominator) ==
    IF denominator.exc # "none" THEN denominator
    ELSE IF denominator.num = 0
            \/ PyInt(rational_parts.frac_before_point) = 0
    THEN FractionError("ZeroDivisionError")
    ELSE PartsFraction(
            IF rational_parts.frac_sign = <<"-">> THEN 1 ELSE 0,
            rational_parts.frac_before_point,
            IF rational_parts.frac_after_point = PyNone THEN <<>>
            ELSE rational_parts.frac_after_point,
            IF rational_parts.exponent_sign = <<"-">> THEN 1 ELSE 0,
            IF rational_parts.exponent = PyNone THEN <<"0">>
            ELSE rational_parts.exponent,
            denominator)

\* lines 100-121 of rational2fraction: the fraction of a matched string,
\* given what the recursive call on its denominator group returned
fraction_of_parts(rational_parts, denominator) ==
    IF denominator.exc # "none" THEN denominator
    ELSE IF denominator.num = 0 THEN FractionError("ZeroDivisionError")
    ELSE PartsFraction(
            IF rational_parts.frac_sign = <<"-">> THEN 1 ELSE 0,
            rational_parts.frac_before_point,
            IF rational_parts.frac_after_point = PyNone THEN <<>>
            ELSE rational_parts.frac_after_point,
            IF rational_parts.exponent_sign = <<"-">> THEN 1 ELSE 0,
            IF rational_parts.exponent = PyNone THEN <<"0">>
            ELSE rational_parts.exponent,
            denominator)

RECURSIVE rational2fraction(_)

\* lines 97-108 of rational2fraction, rational_parts being the match
fraction_of_match(rational_parts) ==
    IF ~rational_parts.matched
    THEN FractionError("InvalidRationalNumberError")
    ELSE fraction_of_parts(rational_parts,
                           rational2fraction(rational_parts.denominator))

rational2fraction(rational) ==
    IF rational = PyNone THEN Fraction(1, 1)
    ELSE fraction_of_match(_rational_number_pattern(rational))

----------------------------------------------------------------------------
(* Python values and call outcomes *)

\* A Python value: None, a float, a str or an IReal object
NoIReal == [inf |-> NaN, sup |-> NaN, empty |-> FALSE]
PyNoneVal == [t |-> "None", f |-> 0, s |-> <<>>, iv |-> NoIReal]
PyFloat(k) == [t |-> "float", f |-> k, s |-> <<>>, iv |-> NoIReal]
PyStr(str) == [t |-> "str", f |-> 0, s |-> str, iv |-> NoIReal]
PyIReal(I) == [t |-> "IReal", f |-> 0, s |-> <<>>, iv |-> I]

\* Python's == on these values: floats by value (NaN unequal to itself),
\* strings by content, values of different types unequal
PyEq(a, b) ==
    /\ a.t = b.t
    /\ CASE a.t = "float" -> FEq(a.f, b.f)
         [] a.t = "str" -> a.s = b.s
         [] a.t = "IReal" -> a.iv = b.iv
         [] OTHER -> TRUE

\* What a call did: the exception it raised ("none": it returned), the
\* value it returned (an IReal, a float or a bool), and the rounding mode
\* it left in force
Returned(kind, I, f, b, m) ==
    [exc |-> "none", kind |-> kind, iv |-> I, f |-> f, b |-> b, mode |-> m]
Raise(e, m) ==
    [exc |-> e, kind |-> "raise", iv |-> NoIReal, f |-> 0, b |-> FALSE,
     mode |-> m]
ReturnIReal(I, m) == Returned("IReal", I, 0, FALSE, m)
ReturnFloat(f, m) == Returned("float", NoIReal, f, FALSE, m)
ReturnBool(b, m) == Returned("bool", NoIReal, 0, b, m)

----------------------------------------------------------------------------
(* ireal/ireal.py: construction *)

\* float(n) of a Python integer under rounding mode m: OverflowError when
\* n is beyond the floats
FloatOfInt(n, m) ==
    LET r == Round(m, n * One, 1)
    IN  [exc |-> IF IsInf(r) THEN "OverflowError" ELSE "none", f |-> r]

\* lines 78-79 and 86-87 of _parse_limits, after rounding.set_mode(0): the
\* two parts of number_fraction as floats; m is the mode in force when
\* rational2fraction raised
FloatFraction(number_fraction, m) ==
    IF number_fraction.exc # "none"
    THEN [exc |-> number_fraction.exc, num |-> 0, den |-> 0, mode |-> m]
    ELSE IF FloatOfInt(number_fraction.num, ToNearest).exc # "none"
            \/ FloatOfInt(number_fraction.den, ToNearest).exc # "none"
    THEN [exc |-> "OverflowError", num |-> 0, den |-> 0, mode |-> ToNearest]
    ELSE [exc |-> "none",
          num |-> FloatOfInt(number_fraction.num, ToNearest).f,
          den |-> FloatOfInt(number_fraction.den, ToNearest).f,
          mode |-> ToNearest]

\* lines 76-79 and 84-87 of _parse_limits
ConvertFraction(str, m) == FloatFraction(rational2fraction(str), m)

Limits(lo, hi, m) == [exc |-> "none", inf |-> lo, sup |-> hi, mode |-> m]
LimitsError(e, m) == [exc |-> e, inf |-> NaN, sup |-> NaN, mode |-> m]

\* _parse_limits without its finally clause: an exception leaves the mode
\* that was in force when it was raised
LimitsOfFractions_no_finally(inf, sup, rounding_mode_backup, first, second) ==
    IF first.exc # "none"
    THEN LimitsError(first.exc, first.mode)
    ELSE IF second.exc # "none"
    THEN LimitsError(second.exc, second.mode)
    ELSE Limits(IF inf.t = "str"
                THEN FDiv(first.num, first.den, TowardNegative)
                ELSE inf.f,
                IF sup.t = "str"
                THEN FDiv(second.num, second.den, TowardPositive)
                ELSE sup.f,
                rounding_mode_backup)

\* the end of _parse_limits, given the float fractions first (of inf) and
\* second (of sup): new_inf is their quotient after rounding.set_mode(-1),
\* new_sup after rounding.set_mode(1).  The finally clause restores
\* rounding_mode_backup on every path out of the try block.
LimitsOfFractions(inf, sup, rounding_mode_backup, first, second) ==
    IF first.exc # "none"
    THEN LimitsError(first.exc, rounding_mode_backup)
    ELSE IF second.exc # "none"
    THEN LimitsError(second.exc, rounding_mode_backup)
    ELSE Limits(IF inf.t = "str"
                THEN FDiv(first.num, first.den, TowardNegative)
                ELSE inf.f,
                IF sup.t = "str"
                THEN FDiv(second.num, second.den, TowardPositive)
                ELSE sup.f,
                rounding_mode_backup)

\* lines 82-89 of _parse_limits: sup is converted unless it is the string
\* inf, whose float fraction is then used again
SecondFraction(inf, sup, m, first) ==
    IF sup.t = "str" /\ ~PyEq(inf, sup)
    THEN ConvertFraction(sup.s, IF inf.t = "str" THEN TowardNegative ELSE m)
    ELSE first

LimitsFromFirst(inf, sup, m, first) ==
    LimitsOfFractions(inf, sup, m, first, SecondFraction(inf, sup, m, first))

\* _parse_limits(inf, sup), entered under rounding mode m
_parse_limits(inf, sup, m) ==
    LimitsFromFirst(inf, sup, m,
        IF inf.t = "str" THEN ConvertFraction(inf.s, m)
        ELSE [exc |-> "none", num |-> 0, den |-> 0, mode |-> m])

UndefinedStr == <<"u", "n", "d", "e", "f", "i", "n", "e", "d">>

\* _set_limits keeping the limits in the order they were given
IRealOfLimits_unordered(limits) ==
    IF limits.exc # "none" THEN Raise(limits.exc, limits.mode)
    ELSE IF ~(isnan(limits.inf) \/ isnan(limits.sup))
    THEN ReturnIReal([inf |-> limits.inf, sup |-> limits.sup,
                      empty |-> FALSE], limits.mode)
    ELSE ReturnIReal([inf |-> NaN, sup |-> NaN, empty |-> FALSE],
                     limits.mode)

\* lines 163-164 of _set_limits: the IReal of the limits _parse_limits
\* returned, or the exception it raised
IRealOfLimits(limits) ==
    IF limits.exc # "none" THEN Raise(limits.exc, limits.mode)
    ELSE IF ~(isnan(limits.inf) \/ isnan(limits.sup))
    THEN ReturnIReal([inf |-> PyMin(<<limits.inf, limits.sup>>),
                      sup |-> PyMax(<<limits.inf, limits.sup>>),
                      empty |-> FALSE], limits.mode)
    ELSE ReturnIReal([inf |-> NaN, sup |-> NaN, empty |-> FALSE],
                     limits.mode)

\* IReal.__init__ and IReal._set_limits: IReal(inf, sup) under mode m
IReal(inf, sup, m) ==
    IF inf.t = "None"
    THEN ReturnIReal([inf |-> NaN, sup |-> NaN, empty |-> TRUE], m)
    ELSE IF PyEq(inf, PyStr(UndefinedStr))
    THEN ReturnIReal([inf |-> NaN, sup |-> NaN, empty |-> FALSE], m)
    ELSE IRealOfLimits(
            _parse_limits(inf, IF sup.t = "None" THEN inf ELSE sup, m))

\* the properties empty and undefined
empty(I) == I.empty
undefined(I) == ~I.empty /\ (isnan(I.inf) \/ isnan(I.sup))

\* IReal() and IReal("undefined")
EmptyIReal == IReal(PyNoneVal, PyNoneVal, ToNearest).iv
UndefinedIReal == IReal(PyStr(UndefinedStr), PyNoneVal, ToNearest).iv

----------------------------------------------------------------------------
(* ireal/ireal.py: the operations.  self is an IReal, other any Python    *)
(* value, m the rounding mode in force when the operation is entered.     *)

\* if type(other) != type(self): other = IReal(other)
Coerce(other, m) ==
    IF other.t = "IReal" THEN ReturnIReal(other.iv, m)
    ELSE IReal(other, PyNoneVal, m)

\* __contains__ comparing with < and >: a limit of self is not in self
Contains_open(self, o) ==
    IF o.exc # "none" THEN o
    ELSE IF undefined(self) \/ undefined(o.iv) THEN ReturnBool(FALSE, o.mode)
    ELSE IF empty(self) /\ ~empty(o.iv) THEN ReturnBool(FALSE, o.mode)
    ELSE IF empty(o.iv) THEN ReturnBool(TRUE, o.mode)
    ELSE ReturnBool(FLt(self.inf, o.iv.inf) /\ FGt(self.sup, o.iv.sup),
                    o.mode)

\* __contains__ without the test of line 543: an Undefined operand is
\* compared like any other
Contains_no_undefined(self, o) ==
    IF o.exc # "none" THEN o
    ELSE IF empty(self) /\ ~empty(o.iv) THEN ReturnBool(FALSE, o.mode)
    ELSE IF empty(o.iv) THEN ReturnBool(TRUE, o.mode)
    ELSE ReturnBool(FLe(self.inf, o.iv.inf) /\ FGe(self.sup, o.iv.sup),
                    o.mode)

\* __contains__ returning True as soon as one of the operands is Empty
Contains_empty_true(self, o) ==
    IF o.exc # "none" THEN o
    ELSE IF undefined(self) \/ undefined(o.iv) THEN ReturnBool(FALSE, o.mode)
    ELSE IF empty(self) \/ empty(o.iv) THEN ReturnBool(TRUE, o.mode)
    ELSE ReturnBool(FLe(self.inf, o.iv.inf) /\ FGe(self.sup, o.iv.sup),
                    o.mode)

\* lines 543-549 of __contains__, o being other after its conversion
Contains(self, o) ==
    IF o.exc # "none" THEN o
    ELSE IF undefined(self) \/ undefined(o.iv) THEN ReturnBool(FALSE, o.mode)
    ELSE IF empty(self) /\ ~empty(o.iv) THEN ReturnBool(FALSE, o.mode)
    ELSE IF empty(o.iv) THEN ReturnBool(TRUE, o.mode)
    ELSE ReturnBool(FLe(self.inf, o.iv.inf) /\ FGe(self.sup, o.iv.sup),
                    o.mode)

__contains__(self, other, m) == Contains(self, Coerce(other, m))

__pos__(self, m) ==
    IF empty(self) THEN Raise("EmptyIntervalError", m)
    ELSE ReturnIReal(self, m)

__neg__(self, m) ==
    IF empty(self) THEN Raise("EmptyIntervalError", m)
    ELSE IReal(PyFloat(FNeg(self.sup)), PyFloat(FNeg(self.inf)), m)

\* lines 231-239 of __invert__, zero_in being what 0.0 in self returned.
\* There is no try block: an exception raised by a division would leave
\* the mode that is in force at the division.
Invert(self, zero_in) ==
    IF zero_in.exc # "none" THEN zero_in
    ELSE IF zero_in.b
    THEN IReal(PyStr(UndefinedStr), PyNoneVal, zero_in.mode)
    \* rounding_mode_backup = rounding.get_mode(): zero_in.mode
    \* rounding.set_mode(-1); inf = 1.0 / self.sup
    ELSE IF FEq(self.sup, 0) THEN Raise("ZeroDivisionError", TowardNegative)
    \* rounding.set_mode(1); sup = 1.0 / self.inf
    ELSE IF FEq(self.inf, 0) THEN Raise("ZeroDivisionError", TowardPositive)
    \* rounding.set_mode(rounding_mode_backup); return IReal(inf, sup)
    ELSE IReal(PyFloat(FDiv(One, self.sup, TowardNegative)),
               PyFloat(FDiv(One, self.inf, TowardPositive)),
               zero_in.mode)

__invert__(self, m) ==
    IF empty(self) THEN Raise("EmptyIntervalError", m)
    ELSE Invert(self, __contains__(self, PyFloat(0), m))

\* __add__ computing both limits to nearest, as if rounding.set_mode had no
\* effect
Add_to_nearest(self, o) ==
    IF o.exc # "none" THEN o
    ELSE IF empty(self) \/ empty(o.iv)
    THEN Raise("EmptyIntervalError", o.mode)
    ELSE IReal(PyFloat(FAdd(self.inf, o.iv.inf, ToNearest)),
               PyFloat(FAdd(self.sup, o.iv.sup, ToNearest)),
               o.mode)

\* lines 265-273 of __add__, o being other after its conversion
Add(self, o) ==
    IF o.exc # "none" THEN o
    ELSE IF empty(self) \/ empty(o.iv)
    THEN Raise("EmptyIntervalError", o.mode)
    \* rounding_mode_backup = rounding.get_mode(): o.mode
    \* rounding.set_mode(-1); inf = self.inf + other.inf
    \* rounding.set_mode(1); sup = self.sup + other.sup
    \* rounding.set_mode(rounding_mode_backup); return IReal(inf, sup)
    ELSE IReal(PyFloat(FAdd(self.inf, o.iv.inf, TowardNegative)),
               PyFloat(FAdd(self.sup, o.iv.sup, TowardPositive)),
               o.mode)

__add__(self, other, m) == Add(self, Coerce(other, m))

\* lines 299-307 of __sub__
Sub(self, o) ==
    IF o.exc # "none" THEN o
    ELSE IF empty(self) \/ empty(o.iv)
    THEN Raise("EmptyIntervalError", o.mode)
    ELSE IReal(PyFloat(FSub(self.inf, o.iv.sup, TowardNegative)),
               PyFloat(FSub(self.sup, o.iv.inf, TowardPositive)),
               o.mode)

__sub__(self, other, m) == Sub(self, Coerce(other, m))

\* the four products (quotients) of the limits under rounding mode d
Products(x1, y1, x2, y2, d) ==
    <<FMul(x1, x2, d), FMul(x1, y2, d), FMul(y1, x2, d), FMul(y1, y2, d)>>
Quotients(x1, y1, x2, y2, d) ==
    <<FDiv(x1, x2, d), FDiv(x1, y2, d), FDiv(y1, x2, d), FDiv(y1, y2, d)>>

\* lines 333-342 of __mul__
Mul(self, o) ==
    IF o.exc # "none" THEN o
    ELSE IF empty(self) \/ empty(o.iv)
    THEN Raise("EmptyIntervalError", o.mode)
    ELSE IReal(PyFloat(PyMin(Products(self.inf, self.sup, o.iv.inf,
                                      o.iv.sup, TowardNegative))),
               PyFloat(PyMax(Products(self.inf, self.sup, o.iv.inf,
                                      o.iv.sup, TowardPositive))),
               o.mode)

__mul__(self, other, m) == Mul(self, Coerce(other, m))

\* lines 372-381 of __div__, zero_in being what 0.0 in other returned.
\* There is no try block, as in __invert__.
Quotient(self, other, zero_in) ==
    IF zero_in.exc # "none" THEN zero_in
    ELSE IF zero_in.b
    THEN IReal(PyStr(UndefinedStr), PyNoneVal, zero_in.mode)
    ELSE IF FEq(other.inf, 0) \/ FEq(other.sup, 0)
    THEN Raise("ZeroDivisionError", TowardNegative)
    ELSE IReal(PyFloat(PyMin(Quotients(self.inf, self.sup, other.inf,
                                       other.sup, TowardNegative))),
               PyFloat(PyMax(Quotients(self.inf, self.sup, other.inf,
                                       other.sup, TowardPositive))),
               zero_in.mode)

\* __div__ testing 0.0 in other before the operands' emptiness
Div_zero_first(self, o) ==
    IF o.exc # "none" THEN o
    ELSE IF __contains__(o.iv, PyFloat(0), o.mode).b
    THEN IReal(PyStr(UndefinedStr), PyNoneVal, o.mode)
    ELSE IF empty(self) \/ empty(o.iv)
    THEN Raise("EmptyIntervalError", o.mode)
    ELSE Quotient(self, o.iv, __contains__(o.iv, PyFloat(0), o.mode))

\* lines 370-381 of __div__
Div(self, o) ==
    IF o.exc # "none" THEN o
    ELSE IF empty(self) \/ empty(o.iv)
    THEN Raise("EmptyIntervalError", o.mode)
    ELSE Quotient(self, o.iv, __contains__(o.iv, PyFloat(0), o.mode))

__div__(self, other, m) == Div(self, Coerce(other, m))

\* __and__, __or__, __eq__, __lt__, __le__, distance and hull read other's
\* properties without converting it: other is an IReal
\* __and__ without the test inf_max <= sup_min: the limits of disjoint
\* operands are handed to the constructor
and_no_disjoint_test(self, other, m) ==
    IF undefined(self) \/ undefined(other)
    THEN IReal(PyStr(UndefinedStr), PyNoneVal, m)
    ELSE IF empty(self) \/ empty(other) THEN IReal(PyNoneVal, PyNoneVal, m)
    ELSE IReal(PyFloat(PyMax(<<self.inf, other.inf>>)),
               PyFloat(PyMin(<<self.sup, other.sup>>)), m)

__and__(self, other, m) ==
    IF undefined(self) \/ undefined(other)
    THEN IReal(PyStr(UndefinedStr), PyNoneVal, m)
    ELSE IF empty(self) \/ empty(other) THEN IReal(PyNoneVal, PyNoneVal, m)
    \* sup_min is PyMin(<<self.sup, other.sup>>),
    \* inf_max is PyMax(<<self.inf, other.inf>>)
    ELSE IF FLe(PyMax(<<self.inf, other.inf>>), PyMin(<<self.sup, other.sup>>))
    THEN IReal(PyFloat(PyMax(<<self.inf, other.inf>>)),
               PyFloat(PyMin(<<self.sup, other.sup>>)), m)
    ELSE IReal(PyNoneVal, PyNoneVal, m)

\* __or__ taking intervals that share one point for disjoint
or_touching_disjoint(self, other, m) ==
    IF undefined(self) \/ undefined(other)
    THEN IReal(PyStr(UndefinedStr), PyNoneVal, m)
    ELSE IF empty(self) THEN ReturnIReal(other, m)
    ELSE IF empty(other) THEN ReturnIReal(self, m)
    ELSE IF FGe(PyMax(<<self.inf, other.inf>>), PyMin(<<self.sup, other.sup>>))
    THEN IReal(PyStr(UndefinedStr), PyNoneVal, m)
    ELSE IReal(PyFloat(PyMin(<<self.inf, other.inf>>)),
               PyFloat(PyMax(<<self.sup, other.sup>>)), m)

__or__(self, other, m) ==
    IF undefined(self) \/ undefined(other)
    THEN IReal(PyStr(UndefinedStr), PyNoneVal, m)
    ELSE IF empty(self) THEN ReturnIReal(other, m)
    ELSE IF empty(other) THEN ReturnIReal(self, m)
    ELSE IF FGt(PyMax(<<self.inf, other.inf>>), PyMin(<<self.sup, other.sup>>))
    THEN IReal(PyStr(UndefinedStr), PyNoneVal, m)
    ELSE IReal(PyFloat(PyMin(<<self.inf, other.inf>>)),
               PyFloat(PyMax(<<self.sup, other.sup>>)), m)

__eq__(self, other, m) ==
    ReturnBool((empty(self) /\ empty(other))
               \/ (FEq(self.inf, other.inf) /\ FEq(self.sup, other.sup)), m)

__lt__(self, other, m) ==
    IF empty(self) \/ empty(other) THEN Raise("EmptyIntervalError", m)
    ELSE IF undefined(self) \/ undefined(other) THEN ReturnBool(FALSE, m)
    ELSE ReturnBool(FLt(self.sup, other.inf), m)

\* __le__ without the case of two Empty operands
le_empty_raises(self, other, m) ==
    IF empty(self) \/ empty(other) THEN Raise("EmptyIntervalError", m)
    ELSE IF undefined(self) \/ undefined(other) THEN ReturnBool(FALSE, m)
    ELSE ReturnBool(FLe(self.inf, other.inf) /\ FLe(self.sup, other.sup), m)

__le__(self, other, m) ==
    IF empty(self) /\ empty(other) THEN ReturnBool(TRUE, m)
    ELSE IF empty(self) \/ empty(other) THEN Raise("EmptyIntervalError", m)
    ELSE IF undefined(self) \/ undefined(other) THEN ReturnBool(FALSE, m)
    ELSE ReturnBool(FLe(self.inf, other.inf) /\ FLe(self.sup, other.sup), m)

__abs__(self, m) ==
    IF empty(self) THEN Raise("EmptyIntervalError", m)
    ELSE IF undefined(self) THEN Raise("UndefinedIntervalError", m)
    ELSE ReturnFloat(PyMax(<<FAbs(self.inf), FAbs(self.sup)>>), m)

\* diameter, middle and distance set mode 1 for the computation and
\* restore rounding_mode_backup, which is m, before they return
diameter(self, m) ==
    IF empty(self) THEN Raise("EmptyIntervalError", m)
    ELSE IF undefined(self) THEN Raise("UndefinedIntervalError", m)
    ELSE ReturnFloat(FSub(self.sup, self.inf, TowardPositive), m)

middle(self, m) ==
    IF empty(self) THEN Raise("EmptyIntervalError", m)
    ELSE IF undefined(self) THEN Raise("UndefinedIntervalError", m)
    ELSE ReturnFloat(FDiv(FAdd(self.inf, self.sup, TowardPositive),
                          2 * One, TowardPositive), m)

distance(self, other, m) ==
    IF empty(self) \/ empty(other) THEN Raise("EmptyIntervalError", m)
    ELSE IF undefined(self) \/ undefined(other)
    THEN Raise("UndefinedIntervalError", m)
    ELSE ReturnFloat(
            PyMax(<<FAbs(FSub(self.inf, other.inf, TowardPositive)),
                    FAbs(FSub(self.sup, other.sup, TowardPositive))>>), m)

hull(self, other, m) ==
    IF undefined(self) \/ undefined(other)
    THEN IReal(PyStr(UndefinedStr), PyNoneVal, m)
    ELSE IF empty(self) THEN ReturnIReal(other, m)
    ELSE IF empty(other) THEN ReturnIReal(self, m)
    ELSE IReal(PyFloat(PyMin(<<self.inf, other.inf>>)),
               PyFloat(PyMax(<<self.sup, other.sup>>)), m)

----------------------------------------------------------------------------
(* A Python session: two variables x and y, the rounding mode, and calls  *)
(* of IReal's public operations on them                                   *)

\* the strings the session passes as limits
Literals == {
    <<"1", "/", "3">>, <<"2", "/", "3">>, <<"-", "1", "/", "3">>,
    <<"1", ".", "5">>, <<"5">>, <<"1", "e", "2">>,
    <<"1", "/", "0">>, <<"1", "/">>, UndefinedStr }

\* the values the session assigns to a variable
Inputs == {PyNoneVal} \cup {PyFloat(f) : f \in Floats}
            \cup {PyStr(str) : str \in Literals}

NoCall == Raise("none", ToNearest)

Init ==
    /\ pc = "idle"
    /\ mode = ToNearest
    /\ mode0 = ToNearest
    /\ op = "none"
    /\ x = PyNoneVal
    /\ y = PyNoneVal
    /\ ret = NoCall
    /\ buf = <<>>
    /\ frac = Fraction(0, 0)

\* x = v
LoadX(v) ==
    /\ pc = "idle"
    /\ x' = v
    /\ UNCHANGED <<pc, mode, mode0, op, y, ret, buf, frac>>

\* x, y = y, x
Swap ==
    /\ pc = "idle"
    /\ x' = y
    /\ y' = x
    /\ UNCHANGED <<pc, mode, mode0, op, ret, buf, frac>>

\* rounding.set_mode(m), by the session itself
SetMode(m) ==
    /\ pc = "idle"
    /\ mode' = m
    /\ mode0' = m
    /\ UNCHANGED <<pc, op, x, y, ret, buf, frac>>

\* a call that returns or raises outcome
Call(name, outcome) ==
    /\ pc' = "returned"
    /\ op' = name
    /\ mode0' = mode
    /\ ret' = outcome
    /\ mode' = outcome.mode
    /\ UNCHANGED <<x, y, buf, frac>>

\* IReal(x, y)
CallIReal ==
    /\ pc = "idle"
    /\ x.t # "IReal"
    /\ y.t # "IReal"
    /\ Call("IReal", IReal(x, y, mode))

\* IReal(x)
CallIRealOf ==
    /\ pc = "idle"
    /\ x.t # "IReal"
    /\ Call("IRealOf", IReal(x, PyNoneVal, mode))

UnaryOps == {"__pos__", "__neg__", "__invert__", "__abs__", "diameter",
             "middle"}
Unary(name, self, m) ==
    CASE name = "__pos__" -> __pos__(self, m)
      [] name = "__neg__" -> __neg__(self, m)
      [] name = "__invert__" -> __invert__(self, m)
      [] name = "__abs__" -> __abs__(self, m)
      [] name = "diameter" -> diameter(self, m)
      [] name = "middle" -> middle(self, m)

\* +x, -x, ~x, abs(x), x.diameter(), x.middle()
CallUnary(name) ==
    /\ pc = "idle"
    /\ x.t = "IReal"
    /\ Call(name, Unary(name, x.iv, mode))

\* the operations that convert an other that is no IReal
CoercingOps == {"__add__", "__sub__", "__mul__", "__div__", "__contains__"}
Coercing(name, self, other, m) ==
    CASE name = "__add__" -> __add__(self, other, m)
      [] name = "__sub__" -> __sub__(self, other, m)
      [] name = "__mul__" -> __mul__(self, other, m)
      [] name = "__div__" -> __div__(self, other, m)
      [] name = "__contains__" -> __contains__(self, other, m)

\* x + y, x - y, x * y, x / y, y in x
CallCoercing(name) ==
    /\ pc = "idle"
    /\ x.t = "IReal"
    /\ Call(name, Coercing(name, x.iv, y, mode))

IRealOps == {"__and__", "__or__", "__eq__", "__lt__", "__le__", "distance",
             "hull"}
OnIReals(name, self, other, m) ==
    CASE name = "__and__" -> __and__(self, other, m)
      [] name = "__or__" -> __or__(self, other, m)
      [] name = "__eq__" -> __eq__(self, other, m)
      [] name = "__lt__" -> __lt__(self, other, m)
      [] name = "__le__" -> __le__(self, other, m)
      [] name = "distance" -> distance(self, other, m)
      [] name = "hull" -> hull(self, other, m)

\* x & y, x | y, x == y, x < y, x <= y, x.distance(y), x.hull(y)
CallOnIReals(name) ==
    /\ pc = "idle"
    /\ x.t = "IReal"
    /\ y.t = "IReal"
    /\ Call(name, OnIReals(name, x.iv, y.iv, mode))

\* x = <the IReal the call returned>
StoreX ==
    /\ pc = "returned"
    /\ ret.exc = "none"
    /\ ret.kind = "IReal"
    /\ pc' = "idle"
    /\ x' = PyIReal(ret.iv)
    /\ op' = "none"
    /\ ret' = NoCall
    /\ mode0' = mode
    /\ UNCHANGED <<mode, y, buf, frac>>

\* the session goes on without keeping what the call returned
Drop ==
    /\ pc = "returned"
    /\ op # "rational2fraction"
    /\ pc' = "idle"
    /\ op' = "none"
    /\ ret' = NoCall
    /\ mode0' = mode
    /\ UNCHANGED <<mode, x, y, buf, frac>>

Next ==
    \/ \E v \in Inputs : LoadX(v)
    \/ Swap
    \/ \E m \in Modes : SetMode(m)
    \/ CallIReal
    \/ CallIRealOf
    \/ \E name \in UnaryOps : CallUnary(name)
    \/ \E name \in CoercingOps : CallCoercing(name)
    \/ \E name \in IRealOps : CallOnIReals(name)
    \/ StoreX
    \/ Drop

Spec == Init /\ [][Next]_vars

\* x & y and x.hull(y) alone, on every pair of intervals: Empty, Undefined
\* and IReal(a, b) for all floats a and b
SetOps == {"__and__", "hull"}
SetOperands ==
    {PyIReal(EmptyIReal), PyIReal(UndefinedIReal)}
        \cup {PyIReal(IReal(PyFloat(a), PyFloat(b), ToNearest).iv) :
                a \in Floats \ {NaN}, b \in Floats \ {NaN}}

InitSetOps ==
    /\ pc = "idle"
    /\ mode = ToNearest
    /\ mode0 = ToNearest
    /\ op = "none"
    /\ x \in SetOperands
    /\ y \in SetOperands
    /\ ret = NoCall
    /\ buf = <<>>
    /\ frac = Fraction(0, 0)

NextSetOps == \E name \in SetOps : CallOnIReals(name)

SpecSetOps == InitSetOps /\ [][NextSetOps]_vars

----------------------------------------------------------------------------
(* The strings rational2fraction is called on *)

\* the characters strings are made of: some digits and every character the
\* pattern names
Alphabet == {"0", "1", "2", "5"} \cup SignChars \cup PointChars
                \cup ExpChars \cup {"/"}

\* s is a literal of the grammar, its nested denominators included
RECURSIVE IsLiteral(_)
IsLiteral(s) ==
    LET m == _rational_number_pattern(s)
    IN  IF ~m.matched THEN FALSE
        ELSE IF m.denominator = PyNone THEN TRUE
        ELSE IsLiteral(m.denominator)

\* s can still be completed to a literal: a string that cannot is rejected
\* whatever follows it, so the strings tried are the literals, their
\* prefixes, and each of these followed by one character that spoils it
Completable(s) == IF IsLiteral(s) THEN TRUE ELSE IsLiteral(Append(s, "0"))

\* no exponent part of s names a power of ten above MaxPow
RECURSIVE SmallExponents(_)
SmallExponents(s) ==
    LET m == _rational_number_pattern(s)
    IN  IF ~m.matched THEN TRUE
        ELSE /\ IF m.exponent = PyNone THEN TRUE
                ELSE PyInt(m.exponent) <= MaxPow
             /\ IF m.denominator = PyNone THEN TRUE
                ELSE SmallExponents(m.denominator)


InitParse ==
    /\ pc = "idle"
    /\ buf \in {<<>>, PyNone}
    /\ frac = Fraction(0, 0)
    /\ mode = 0 /\ mode0 = 0
    /\ op = "none"
    /\ x = PyNoneVal /\ y = PyNoneVal
    /\ ret = Raise("none", 0)

\* the caller extends the string it is about to pass
TypeChar(c) ==
    /\ pc = "idle"
    /\ buf # PyNone
    /\ Len(buf) < MaxLen
    /\ Completable(buf)
    /\ SmallExponents(Append(buf, c))
    /\ buf' = Append(buf, c)
    /\ UNCHANGED <<pc, mode, mode0, op, x, y, ret, frac>>

\* rational2fraction(buf)
CallRational2Fraction ==
    /\ pc = "idle"
    /\ pc' = "returned"
    /\ op' = "rational2fraction"
    /\ frac' = rational2fraction(buf)
    /\ UNCHANGED <<mode, mode0, x, y, ret, buf>>

NextParse ==
    \/ \E c \in Alphabet : TypeChar(c)
    \/ CallRational2Fraction

SpecParse == InitParse /\ [][NextParse]_vars

----------------------------------------------------------------------------
(* One call, statement by statement: the operations that set the rounding *)
(* mode, with an exception that may arrive between any two statements.    *)
(* pc is the statement to execute next, mode0 is rounding_mode_backup,    *)
(* frac holds the locals, ret the exception that is propagating, and buf  *)
(* records each rounding.set_mode call and each float operation together  *)
(* with the mode in force when it executed.                               *)

\* the operations that compute two limits, and those that compute a float
LimitOps == {"__invert__", "__add__", "__sub__", "__mul__", "__div__"}
MeasureOps == {"diameter", "middle", "distance"}
StepOps == LimitOps \cup MeasureOps \cup {"IReal"}

\* the limits of the operands of a call
StepLimits == {0 - One, 0, 3}

\* the operands of a call: intervals in each state, and the floats and
\* strings IReal(inf, sup) is called on
StepIReals ==
    {EmptyIReal, UndefinedIReal}
        \cup {IReal(PyFloat(p[1]), PyFloat(p[2]), ToNearest).iv :
                p \in StepLimits \X StepLimits}
StepValues ==
    {PyIReal(I) : I \in StepIReals} \cup {PyFloat(One)}
        \cup {PyStr(str) : str \in Literals \ {UndefinedStr}}

\* the locals of _parse_limits and of the operations
Locals(number_fraction, fp_numerator, fp_denominator, inf, sup) ==
    [number_fraction |-> number_fraction, fp_numerator |-> fp_numerator,
     fp_denominator |-> fp_denominator, inf |-> inf, sup |-> sup]

\* an entry of the record buf
Event(slot, m) == [slot |-> slot, mode |-> m]

\* what the call returns or raises when nothing interrupts it
Outcome(name, a, b, m) ==
    IF name = "IReal" THEN IReal(a, b, m)
    ELSE IF name = "distance" THEN distance(a.iv, b.iv, m)
    ELSE IF name \in UnaryOps THEN Unary(name, a.iv, m)
    ELSE Coercing(name, a.iv, b, m)

\* the tests before rounding_mode_backup = rounding.get_mode() let the
\* call through: no operand is Empty, 0.0 is not in the divisor, and no
\* operand of diameter, middle or distance is Undefined
ReachesGetMode(name, a, b, m) ==
    IF name = "IReal" THEN TRUE
    ELSE IF empty(a.iv) THEN FALSE
    ELSE IF name = "__invert__" THEN ~__contains__(a.iv, PyFloat(0), m).b
    ELSE IF name \in {"diameter", "middle"} THEN ~undefined(a.iv)
    ELSE IF empty(b.iv) THEN FALSE
    ELSE IF name = "__div__" THEN ~__contains__(b.iv, PyFloat(0), m).b
    ELSE IF name = "distance" THEN ~(undefined(a.iv) \/ undefined(b.iv))
    ELSE TRUE

\* the expression assigned to inf, evaluated under the mode m in force
LowerLimit(name, self, other, m) ==
    CASE name = "__invert__" -> FDiv(One, self.sup, m)
      [] name = "__add__" -> FAdd(self.inf, other.inf, m)
      [] name = "__sub__" -> FSub(self.inf, other.sup, m)
      [] name = "__mul__" ->
            PyMin(Products(self.inf, self.sup, other.inf, other.sup, m))
      [] name = "__div__" ->
            PyMin(Quotients(self.inf, self.sup, other.inf, other.sup, m))

\* the expression assigned to sup, or to ret in diameter, middle and
\* distance, evaluated under the mode m in force
UpperLimit(name, self, other, m) ==
    CASE name = "__invert__" -> FDiv(One, self.inf, m)
      [] name = "__add__" -> FAdd(self.sup, other.sup, m)
      [] name = "__sub__" -> FSub(self.sup, other.inf, m)
      [] name = "__mul__" ->
            PyMax(Products(self.inf, self.sup, other.inf, other.sup, m))
      [] name = "__div__" ->
            PyMax(Quotients(self.inf, self.sup, other.inf, other.sup, m))
      [] name = "diameter" -> FSub(self.sup, self.inf, m)
      [] name = "middle" -> FDiv(FAdd(self.inf, self.sup, m), 2 * One, m)
      [] name = "distance" ->
            PyMax(<<FAbs(FSub(self.inf, other.inf, m)),
                    FAbs(FSub(self.sup, other.sup, m))>>)

\* lines 82-88 of _parse_limits with rounding.set_mode(1) inside the test
\* inf != sup: the quotient of a repeated string follows at once
AfterTestSup_set_mode_inside(inf, sup) ==
    IF sup.t # "str" THEN "restore"
    ELSE IF ~PyEq(inf, sup) THEN "parse_sup"
    ELSE "sup"

\* lines 82-83 of _parse_limits: the statement that follows the tests
\* type(sup) == type(str()) and inf != sup
AfterTestSup(inf, sup) ==
    IF sup.t # "str" THEN "restore"
    ELSE IF ~PyEq(inf, sup) THEN "parse_sup"
    ELSE "set_sup"

\* the mode an exception leaves behind that arrives under mode m:
\* _parse_limits restores rounding_mode_backup in its finally clause, the
\* other operations have no try statement around their computation
ModeAfterException(name, m, rounding_mode_backup) ==
    IF name = "IReal" THEN rounding_mode_backup ELSE m

\* rounding.set_mode has been called since the call was entered
ModeWasSet == \E i \in DOMAIN buf : buf[i].slot = "set_mode"

InitSteps ==
    /\ pc = "idle"
    /\ mode \in Modes
    /\ mode0 = mode
    /\ op = "none"
    /\ x \in StepValues
    /\ y \in StepValues
    /\ ret = NoCall
    /\ buf = <<>>
    /\ frac = Locals(Fraction(0, 0), 0, 0, 0, 0)

\* the call is entered and runs up to rounding.get_mode(), or returns or
\* raises before it
Enter(name) ==
    /\ pc = "idle"
    /\ IF name = "IReal"
       THEN x.t \in {"str", "float"} /\ y.t \in {"str", "float"}
       ELSE x.t = "IReal" /\ y.t = "IReal"
    /\ op' = name
    /\ IF ReachesGetMode(name, x, y, mode)
       THEN pc' = "get_mode" /\ ret' = ret
       ELSE pc' = "returned" /\ ret' = Outcome(name, x, y, mode)
    \* new_inf, new_sup = inf, sup
    /\ frac' = Locals(Fraction(0, 0), 0, 0, x.f, y.f)
    /\ UNCHANGED <<mode, mode0, x, y, buf>>

\* rounding_mode_backup = rounding.get_mode()
GetMode ==
    /\ pc = "get_mode"
    /\ mode0' = mode
    /\ pc' = IF op \in LimitOps THEN "set_inf"
             ELSE IF op \in MeasureOps THEN "set_sup"
             ELSE IF x.t = "str" THEN "parse_inf"
             ELSE "test_sup"
    /\ UNCHANGED <<mode, op, x, y, ret, buf, frac>>

\* number_fraction = rational2fraction(inf), or of sup
ParseFraction ==
    /\ pc \in {"parse_inf", "parse_sup"}
    /\ frac' = [frac EXCEPT !.number_fraction =
                    rational2fraction(IF pc = "parse_inf" THEN x.s ELSE y.s)]
    /\ IF frac'.number_fraction.exc # "none"
       THEN /\ pc' = "restore"
            /\ ret' = Raise(frac'.number_fraction.exc, mode)
       ELSE /\ pc' = IF pc = "parse_inf" THEN "nearest_inf"
                     ELSE "nearest_sup"
            /\ ret' = ret
    /\ UNCHANGED <<mode, mode0, op, x, y, buf>>

\* rounding.set_mode(0)
SetModeNearest ==
    /\ pc \in {"nearest_inf", "nearest_sup"}
    /\ mode' = ToNearest
    /\ buf' = Append(buf, Event("set_mode", ToNearest))
    /\ pc' = IF pc = "nearest_inf" THEN "float_inf" ELSE "float_sup"
    /\ UNCHANGED <<mode0, op, x, y, ret, frac>>

\* fp_numerator = float(number_fraction[0]) and
\* fp_denominator = float(number_fraction[1]); the second is not reached
\* when the first raises OverflowError
ConvertToFloat ==
    /\ pc \in {"float_inf", "float_sup"}
    /\ IF FloatOfInt(frac.number_fraction.num, mode).exc # "none"
       THEN /\ buf' = Append(buf, Event("numerator", mode))
            /\ pc' = "restore"
            /\ ret' = Raise("OverflowError", mode)
            /\ frac' = frac
       ELSE IF FloatOfInt(frac.number_fraction.den, mode).exc # "none"
       THEN /\ buf' = buf \o <<Event("numerator", mode),
                               Event("denominator", mode)>>
            /\ pc' = "restore"
            /\ ret' = Raise("OverflowError", mode)
            /\ frac' = frac
       ELSE /\ buf' = buf \o <<Event("numerator", mode),
                               Event("denominator", mode)>>
            /\ pc' = IF pc = "float_inf" THEN "set_inf" ELSE "set_sup"
            /\ ret' = ret
            /\ frac' = [frac EXCEPT
                 !.fp_numerator = FloatOfInt(frac.number_fraction.num, mode).f,
                 !.fp_denominator = FloatOfInt(frac.number_fraction.den, mode).f]
    /\ UNCHANGED <<mode, mode0, op, x, y>>

\* rounding.set_mode(-1)
SetModeDown ==
    /\ pc = "set_inf"
    /\ mode' = TowardNegative
    /\ buf' = Append(buf, Event("set_mode", TowardNegative))
    /\ pc' = "inf"
    /\ UNCHANGED <<mode0, op, x, y, ret, frac>>

\* inf = ..., and new_inf = fp_numerator / fp_denominator
ComputeInf ==
    /\ pc = "inf"
    /\ frac' = [frac EXCEPT !.inf =
                    IF op = "IReal"
                    THEN FDiv(frac.fp_numerator, frac.fp_denominator, mode)
                    ELSE LowerLimit(op, x.iv, y.iv, mode)]
    /\ buf' = Append(buf, Event("inf", mode))
    /\ pc' = IF op = "IReal" THEN "test_sup" ELSE "set_sup"
    /\ UNCHANGED <<mode, mode0, op, x, y, ret>>

\* if type(sup) == type(str()): if inf != sup:
TestSup ==
    /\ pc = "test_sup"
    /\ pc' = AfterTestSup(x, y)
    /\ UNCHANGED <<mode, mode0, op, x, y, ret, buf, frac>>

\* rounding.set_mode(1)
SetModeUp ==
    /\ pc = "set_sup"
    /\ mode' = TowardPositive
    /\ buf' = Append(buf, Event("set_mode", TowardPositive))
    /\ pc' = "sup"
    /\ UNCHANGED <<mode0, op, x, y, ret, frac>>

\* sup = ..., ret = ..., and new_sup = fp_numerator / fp_denominator
ComputeSup ==
    /\ pc = "sup"
    /\ frac' = [frac EXCEPT !.sup =
                    IF op = "IReal"
                    THEN FDiv(frac.fp_numerator, frac.fp_denominator, mode)
                    ELSE UpperLimit(op, x.iv, y.iv, mode)]
    /\ buf' = Append(buf, Event(IF op \in MeasureOps THEN "ret" ELSE "sup",
                                mode))
    /\ pc' = "restore"
    /\ UNCHANGED <<mode, mode0, op, x, y, ret>>

\* rounding.set_mode(rounding_mode_backup): the last statement before the
\* return, and in _parse_limits the finally clause, after which an
\* exception goes on to the caller
Restore ==
    /\ pc = "restore"
    /\ mode' = mode0
    /\ IF ret.exc # "none"
       THEN pc' = "returned" /\ ret' = Raise(ret.exc, mode0)
       ELSE pc' = "return" /\ ret' = ret
    /\ UNCHANGED <<mode0, op, x, y, buf, frac>>

\* return IReal(inf, sup), return ret, and in _parse_limits
\* return (float(new_inf), float(new_sup)) to _set_limits
Return ==
    /\ pc = "return"
    /\ pc' = "returned"
    /\ ret' = IF op = "IReal"
              THEN IRealOfLimits(Limits(frac.inf, frac.sup, mode))
              ELSE IF op \in MeasureOps THEN ReturnFloat(frac.sup, mode)
              ELSE IReal(PyFloat(frac.inf), PyFloat(frac.sup), mode)
    /\ UNCHANGED <<mode, mode0, op, x, y, buf, frac>>

\* an exception raised from outside (KeyboardInterrupt from a signal)
\* arrives after rounding.set_mode was called and before the statement
\* that restores the mode has executed
Interrupt ==
    /\ pc \notin {"idle", "get_mode", "return", "returned"}
    /\ ModeWasSet
    /\ pc' = "returned"
    /\ mode' = ModeAfterException(op, mode, mode0)
    /\ ret' = Raise("KeyboardInterrupt", mode')
    /\ UNCHANGED <<mode0, op, x, y, buf, frac>>

NextSteps ==
    \/ \E name \in StepOps : Enter(name)
    \/ GetMode
    \/ ParseFraction
    \/ SetModeNearest
    \/ ConvertToFloat
    \/ SetModeDown
    \/ ComputeInf
    \/ TestSup
    \/ SetModeUp
    \/ ComputeSup
    \/ Restore
    \/ Return
    \/ Interrupt

SpecSteps == InitSteps /\ [][NextSteps]_vars

----------------------------------------------------------------------------
(* Properties of a session *)

\* the states of an interval: Empty and Undefined as the properties empty
\* and undefined tell them, Proper otherwise
ProperState(I) == ~empty(I) /\ ~undefined(I)

\* Proper as the glossary has it: a pair of finite floats, inf <= sup
Proper(I) ==
    /\ ~I.empty
    /\ I.inf \in Finite
    /\ I.sup \in Finite
    /\ I.inf <= I.sup

ReturnedIReal == pc = "returned" /\ ret.exc = "none" /\ ret.kind = "IReal"

\* C1: whatever rounding mode is in force when a public operation is
\* called, the same mode is in force when the call has returned or raised
\* an exception.
ModePreserved == pc = "returned" => mode = mode0

\* a construction from "1/0" has raised ZeroDivisionError under the mode
\* toward +Infinity
ModePreservedWitness ==
    /\ pc = "returned"
    /\ op = "IReal"
    /\ ret.exc = "ZeroDivisionError"
    /\ mode0 = TowardPositive
    /\ mode = TowardPositive

\* the floats within the limits of I
Points(I) == {g \in Finite : I.inf <= g /\ g <= I.sup}

\* the float f is at most (at least) the exact value num/den, den > 0;
\* f is in units of 1/One
AtMost(f, num, den) ==
    IF f = NaN \/ f = PInf THEN FALSE
    ELSE IF f = NInf THEN TRUE
    ELSE f * den <= num * One
AtLeast(f, num, den) ==
    IF f = NaN \/ f = NInf THEN FALSE
    ELSE IF f = PInf THEN TRUE
    ELSE f * den >= num * One
Encloses(I, num, den) == AtMost(I.inf, num, den) /\ AtLeast(I.sup, num, den)

\* I encloses the exact a op b, for floats a and b in units of 1/One
EnclosesExact(name, I, a, b) ==
    CASE name = "__add__" -> Encloses(I, a + b, One)
      [] name = "__sub__" -> Encloses(I, a - b, One)
      [] name = "__mul__" -> Encloses(I, a * b, One * One)
      [] name = "__div__" ->
            IF b > 0 THEN Encloses(I, a, b)
            ELSE IF b < 0 THEN Encloses(I, -a, -b)
            ELSE TRUE

ArithmeticOps == {"__add__", "__sub__", "__mul__", "__div__"}

\* C2: when x op y of two Proper intervals returns an interval that is
\* neither Empty nor Undefined, the exact a op b of every two floats a
\* within x and b within y lies between the limits of the result, for op
\* among +, -, * and /.
Containment ==
    (/\ pc = "returned"
     /\ op \in ArithmeticOps
     /\ y.t = "IReal"
     /\ Proper(x.iv)
     /\ Proper(y.iv)
     /\ ReturnedIReal
     /\ ProperState(ret.iv))
    => \A a \in Points(x.iv), b \in Points(y.iv) :
            EnclosesExact(op, ret.iv, a, b)

\* [1.5, 1.5] * [1.5, 1.5] has returned [2.0, 3.0], which has 2.25 inside
ContainmentWitness ==
    /\ pc = "returned"
    /\ op = "__mul__"
    /\ x.iv = [inf |-> 3, sup |-> 3, empty |-> FALSE]
    /\ y.t = "IReal"
    /\ y.iv = [inf |-> 3, sup |-> 3, empty |-> FALSE]
    /\ ReturnedIReal
    /\ ret.iv = [inf |-> 4, sup |-> 6, empty |-> FALSE]

\* a limit the constructor accepts: a finite float or a rational literal
\* that rational2fraction and float() convert
Accepted(v) ==
    IF v.t = "float" THEN v.f \in Finite
    ELSE IF v.t = "str" THEN ConvertFraction(v.s, ToNearest).exc = "none"
    ELSE FALSE

\* the exact value of an accepted limit as a fraction with den > 0: a
\* float f is f/One, a literal is what it denotes
Exact(v) ==
    IF v.t = "float" THEN Fraction(v.f, One) ELSE rational2fraction(v.s)

\* the smaller and the larger of two fractions with positive denominators
Smaller(p, q) == IF p.num * q.den <= q.num * p.den THEN p ELSE q
Larger(p, q) == IF p.num * q.den >= q.num * p.den THEN p ELSE q

\* C3: IReal(a, b) of two accepted limits, in either order, is the interval
\* from the smaller exact value rounded down to the larger exact value
\* rounded up.
OfRoundsOutward ==
    (/\ pc = "returned"
     /\ op = "IReal"
     /\ Accepted(x)
     /\ Accepted(y)
     /\ ReturnedIReal
     /\ ProperState(ret.iv))
    => /\ ret.iv.inf = RoundDown(Smaller(Exact(x), Exact(y)).num * One,
                                 Smaller(Exact(x), Exact(y)).den)
       /\ ret.iv.sup = RoundUp(Larger(Exact(x), Exact(y)).num * One,
                               Larger(Exact(x), Exact(y)).den)

\* a limit of C4: an accepted limit or the float NaN
AcceptedOrNaN(v) == IF v.t = "float" /\ v.f = NaN THEN TRUE ELSE Accepted(v)

\* C4: for limits a and b that are numbers, NaN or rational literals,
\* IReal(a, b) == IReal(b, a) is True.
OfIsSymmetric ==
    (/\ pc = "returned"
     /\ op = "IReal"
     /\ AcceptedOrNaN(x)
     /\ AcceptedOrNaN(y)
     /\ ReturnedIReal
     /\ IReal(y, x, mode0).exc = "none")
    => __eq__(ret.iv, IReal(y, x, mode0).iv, mode).b

\* the intervals of a state: those the variables hold and the one the
\* call has returned
IRealsOfState ==
    (IF x.t = "IReal" THEN {x.iv} ELSE {})
        \cup (IF y.t = "IReal" THEN {y.iv} ELSE {})
        \cup (IF ReturnedIReal THEN {ret.iv} ELSE {})

\* how many of the three states I is in
StatesOf(I) ==
    Cardinality({s \in {"Empty", "Undefined", "Proper"} :
        \/ s = "Empty" /\ empty(I)
        \/ s = "Undefined" /\ undefined(I)
        \/ s = "Proper" /\ ProperState(I)})

\* C7: every interval that was constructed or returned by an operation is
\* in exactly one of the states Empty, Undefined and Proper, never both
\* Empty and Undefined, and a Proper one has no NaN limit and inf <= sup.
TriState ==
    \A I \in IRealsOfState :
        /\ StatesOf(I) = 1
        /\ ~(empty(I) /\ undefined(I))
        /\ ProperState(I) =>
                /\ I.inf # NaN
                /\ I.sup # NaN
                /\ I.inf <= I.sup

\* IReal(3.0, 1.0) has returned [1.0, 3.0]
TriStateWitness ==
    /\ pc = "returned"
    /\ op = "IReal"
    /\ x = PyFloat(6)
    /\ y = PyFloat(2)
    /\ ReturnedIReal
    /\ ret.iv = [inf |-> 2, sup |-> 6, empty |-> FALSE]

ReturnedUndefined == ReturnedIReal /\ undefined(ret.iv)

\* C8, for the operations of one operand
UnaryDispatch ==
    (pc = "returned" /\ op \in UnaryOps) =>
        IF empty(x.iv) THEN ret.exc = "EmptyIntervalError"
        ELSE IF undefined(x.iv)
        THEN (IF op \in {"__pos__", "__neg__", "__invert__"}
              THEN ReturnedUndefined
              ELSE ret.exc = "UndefinedIntervalError")
        ELSE TRUE

\* C8, for the operations of two operands, the second being y or the
\* interval y was converted to
BinaryDispatch ==
    (/\ pc = "returned"
     /\ op \in ArithmeticOps \cup {"distance"}
     /\ Coerce(y, mode0).exc = "none") =>
        IF empty(x.iv) \/ empty(Coerce(y, mode0).iv)
        THEN ret.exc = "EmptyIntervalError"
        ELSE IF undefined(x.iv) \/ undefined(Coerce(y, mode0).iv)
        THEN (IF op \in ArithmeticOps
              THEN ReturnedUndefined
              ELSE ret.exc = "UndefinedIntervalError")
        ELSE TRUE

\* C8: +x, -x, ~x, x + y, x - y, x * y, x / y, abs(x), x.diameter(),
\* x.middle() and x.distance(y) raise EmptyIntervalError when an operand is
\* Empty, whatever else holds of the operands; otherwise, when an operand
\* is Undefined, the arithmetic operations return Undefined and abs,
\* diameter, middle and distance raise UndefinedIntervalError.
StateDispatch == UnaryDispatch /\ BinaryDispatch

\* Empty / [-1.0, 1.0] has raised EmptyIntervalError
StateDispatchWitness ==
    /\ pc = "returned"
    /\ op = "__div__"
    /\ x.t = "IReal"
    /\ empty(x.iv)
    /\ y.t = "IReal"
    /\ y.iv = [inf |-> -2, sup |-> 2, empty |-> FALSE]
    /\ ret.exc = "EmptyIntervalError"

\* 0 is within the limits of I
ZeroIn(I) == FLe(I.inf, 0) /\ FGe(I.sup, 0)

\* what C9 says of a call on the Proper operand I: Undefined is returned
\* if and only if 0 is in I, and otherwise a Proper interval
ZeroDispatch(I) ==
    /\ ReturnedIReal
    /\ undefined(ret.iv) <=> ZeroIn(I)
    /\ ~ZeroIn(I) => Proper(ret.iv)

\* the same with the result told from Undefined by its state only: its
\* limits may be infinite
ZeroDispatchState(I) ==
    /\ ReturnedIReal
    /\ undefined(ret.iv) <=> ZeroIn(I)
    /\ ~ZeroIn(I) => ProperState(ret.iv)

\* ~x or x / y was called, and no operand is Empty
DividedNonEmpty ==
    /\ pc = "returned"
    /\ op \in {"__invert__", "__div__"}
    /\ ~empty(x.iv)
    /\ op = "__div__" => (y.t = "IReal" /\ ~empty(y.iv))

\* C9 as stated: for Proper x and y, ~x is Undefined if and only if 0 is
\* in x and x / y is Undefined if and only if 0 is in y, the result being
\* Proper otherwise; no ~x or x / y of operands that are not Empty raises
\* ZeroDivisionError.
ZeroDivisorDispatch ==
    /\ (pc = "returned" /\ op = "__invert__" /\ Proper(x.iv))
            => ZeroDispatch(x.iv)
    /\ (/\ pc = "returned"
        /\ op = "__div__"
        /\ y.t = "IReal"
        /\ Proper(x.iv)
        /\ Proper(y.iv)) => ZeroDispatch(y.iv)
    /\ DividedNonEmpty => ret.exc # "ZeroDivisionError"

\* C9, amended: for x and y with finite limits, ~x is Undefined if and only
\* if 0 is in x and x / y is Undefined if and only if 0 is in y; otherwise
\* the result is neither Empty nor Undefined, with limits that may have
\* overflowed to an infinity; no ~x or x / y of operands that are not Empty
\* raises ZeroDivisionError.
ZeroDivisorDispatchState ==
    /\ (pc = "returned" /\ op = "__invert__" /\ Proper(x.iv))
            => ZeroDispatchState(x.iv)
    /\ (/\ pc = "returned"
        /\ op = "__div__"
        /\ y.t = "IReal"
        /\ Proper(x.iv)
        /\ Proper(y.iv)) => ZeroDispatchState(y.iv)
    /\ DividedNonEmpty => ret.exc # "ZeroDivisionError"

\* [1.0, 1.0] / [0.0, 1.0], whose divisor has 0 as a limit, has returned
\* Undefined
ZeroDivisorDispatchWitness ==
    /\ pc = "returned"
    /\ op = "__div__"
    /\ x.iv = [inf |-> 2, sup |-> 2, empty |-> FALSE]
    /\ y.t = "IReal"
    /\ y.iv = [inf |-> 0, sup |-> 2, empty |-> FALSE]
    /\ ReturnedUndefined

\* the limits of x and y do not meet: max(infs) > min(sups)
Disjoint(X, Y) ==
    (IF X.inf >= Y.inf THEN X.inf ELSE Y.inf)
        > (IF X.sup <= Y.sup THEN X.sup ELSE Y.sup)

\* [min(infs), max(sups)]
Span(X, Y) ==
    [inf |-> IF X.inf <= Y.inf THEN X.inf ELSE Y.inf,
     sup |-> IF X.sup >= Y.sup THEN X.sup ELSE Y.sup,
     empty |-> FALSE]

\* C10: x | y is Undefined if and only if x or y is Undefined or both are
\* Proper and disjoint; in every other case x | y is the interval
\* x.hull(y) is; and x.hull(y) of two Proper intervals is the Proper
\* interval [min(infs), max(sups)].
UnionIsHull ==
    /\ (pc = "returned" /\ op = "__or__") =>
            /\ ReturnedIReal
            /\ undefined(ret.iv) <=>
                    \/ undefined(x.iv)
                    \/ undefined(y.iv)
                    \/ /\ ProperState(x.iv)
                       /\ ProperState(y.iv)
                       /\ Disjoint(x.iv, y.iv)
            /\ ~undefined(ret.iv) =>
                    /\ hull(x.iv, y.iv, mode0).exc = "none"
                    /\ ret.iv = hull(x.iv, y.iv, mode0).iv
    /\ (/\ pc = "returned"
        /\ op = "hull"
        /\ ProperState(x.iv)
        /\ ProperState(y.iv)) =>
            /\ ReturnedIReal
            /\ ProperState(ret.iv)
            /\ ret.iv = Span(x.iv, y.iv)

\* [0.0, 1.0] | [1.0, 2.0], which share the point 1.0, has returned
\* [0.0, 2.0]
UnionIsHullWitness ==
    /\ pc = "returned"
    /\ op = "__or__"
    /\ x.iv = [inf |-> 0, sup |-> 2, empty |-> FALSE]
    /\ y.iv = [inf |-> 2, sup |-> 4, empty |-> FALSE]
    /\ ReturnedIReal
    /\ ret.iv = [inf |-> 0, sup |-> 4, empty |-> FALSE]

ReturnedBool == pc = "returned" /\ ret.exc = "none" /\ ret.kind = "bool"

\* Interval.of(v) of a float v, and an interval as it is
Wrapped(v) ==
    IF v.t = "IReal" THEN v.iv
    ELSE IF v.f = NaN THEN [inf |-> NaN, sup |-> NaN, empty |-> FALSE]
    ELSE [inf |-> v.f, sup |-> v.f, empty |-> FALSE]

\* what C12 says other in self is
ContainmentTable(self, other) ==
    IF undefined(self) \/ undefined(other) THEN FALSE
    ELSE IF empty(self) /\ ~empty(other) THEN FALSE
    ELSE IF empty(other) THEN TRUE
    ELSE self.inf <= other.inf /\ self.sup >= other.sup

\* C12: y in x, y being an interval or a float that is wrapped as an
\* interval, never raises and returns False if x or y is Undefined;
\* otherwise False if x is Empty and y is not; otherwise True if y is
\* Empty; otherwise whether x.inf <= y.inf and x.sup >= y.sup.
ContainmentByState ==
    (pc = "returned" /\ op = "__contains__" /\ y.t \in {"IReal", "float"})
        => /\ ReturnedBool
           /\ ret.b = ContainmentTable(x.iv, Wrapped(y))

\* Empty in Undefined has returned False
ContainmentByStateWitness ==
    /\ ReturnedBool
    /\ op = "__contains__"
    /\ undefined(x.iv)
    /\ y.t = "IReal"
    /\ empty(y.iv)
    /\ ret.b = FALSE

\* C13: x < y raises EmptyIntervalError when x or y is Empty; x <= y
\* returns True when both are Empty and raises EmptyIntervalError when one
\* is; with no Empty operand and an Undefined one both return False; for
\* Proper operands x < y is x.sup < y.inf and x <= y is x.inf <= y.inf and
\* x.sup <= y.sup.
OrderingByState ==
    /\ (pc = "returned" /\ op = "__lt__") =>
            IF empty(x.iv) \/ empty(y.iv) THEN ret.exc = "EmptyIntervalError"
            ELSE IF undefined(x.iv) \/ undefined(y.iv)
            THEN ReturnedBool /\ ret.b = FALSE
            ELSE ReturnedBool /\ ret.b = (x.iv.sup < y.iv.inf)
    /\ (pc = "returned" /\ op = "__le__") =>
            IF empty(x.iv) /\ empty(y.iv) THEN ReturnedBool /\ ret.b = TRUE
            ELSE IF empty(x.iv) \/ empty(y.iv)
            THEN ret.exc = "EmptyIntervalError"
            ELSE IF undefined(x.iv) \/ undefined(y.iv)
            THEN ReturnedBool /\ ret.b = FALSE
            ELSE /\ ReturnedBool
                 /\ ret.b = (x.iv.inf <= y.iv.inf /\ x.iv.sup <= y.iv.sup)

\* Empty <= Empty has returned True
OrderingByStateWitness ==
    /\ ReturnedBool
    /\ op = "__le__"
    /\ empty(x.iv)
    /\ empty(y.iv)
    /\ ret.b = TRUE

\* IReal(1) in IReal() was evaluated: x is Empty, y is [1.0, 1.0]
OneInEmpty ==
    /\ pc = "returned"
    /\ op = "__contains__"
    /\ empty(x.iv)
    /\ y.t = "IReal"
    /\ y.iv = [inf |-> One, sup |-> One, empty |-> FALSE]

\* C16 as stated: IReal(1) in IReal() is True.
OneInEmptyIsTrue == OneInEmpty => (ReturnedBool /\ ret.b = TRUE)

\* C16, amended: IReal(1) in IReal() is False, self being Empty and other
\* not; True is returned for an Empty other only.
OneInEmptyIsFalse == OneInEmpty => (ReturnedBool /\ ret.b = FALSE)

\* IReal(1) in IReal() has returned False
OneInEmptyWitness == OneInEmpty /\ ReturnedBool /\ ret.b = FALSE

\* the limits of the enclosing intervals: zero, one, the largest finite
\* float and the infinities
WideLimits == {NInf, 0 - MaxFin, 0 - One, 0, One, MaxFin, PInf}

\* the Empty interval, the Undefined interval and every [a, b] with a <= b
\* over the limits above
WideIReals ==
    {EmptyIReal, UndefinedIReal}
        \cup {[inf |-> p[1], sup |-> p[2], empty |-> FALSE] :
                p \in {q \in WideLimits \X WideLimits : q[1] <= q[2]}}

\* the intervals J above for which I in J is True
Supersets(I) == {J \in WideIReals : __contains__(J, PyIReal(I), ToNearest).b}

\* x2 & y2 and x2.hull(y2) for the enclosing intervals; neither operation
\* reads or sets the rounding mode
WideSetOp ==
    [name \in SetOps |->
        [p \in WideIReals \X WideIReals |->
            OnIReals(name, p[1], p[2], ToNearest)]]

\* inner in outer, outer being what an operation returned
ReturnedAround(outer, inner) ==
    /\ outer.exc = "none"
    /\ outer.kind = "IReal"
    /\ __contains__(outer.iv, PyIReal(inner), ToNearest).b

\* C11: when x in x2 and y in y2 are True, (x & y) in (x2 & y2) and
\* x.hull(y) in x2.hull(y2) are True, for intervals in every state.
SetOpsMonotone ==
    (pc = "returned" /\ op \in SetOps) =>
        /\ ReturnedIReal
        /\ \A x2 \in Supersets(x.iv), y2 \in Supersets(y.iv) :
            ReturnedAround(WideSetOp[op][<<x2, y2>>], ret.iv)

\* [0.0, 1.0] & [1.0, 2.0] has returned [1.0, 1.0], each operand having
\* intervals around it that are larger
SetOpsMonotoneWitness ==
    /\ ReturnedIReal
    /\ op = "__and__"
    /\ x.iv = [inf |-> 0, sup |-> 2, empty |-> FALSE]
    /\ y.iv = [inf |-> 2, sup |-> 4, empty |-> FALSE]
    /\ ret.iv = [inf |-> 2, sup |-> 2, empty |-> FALSE]
    /\ Cardinality(Supersets(x.iv)) > 1
    /\ Cardinality(Supersets(y.iv)) > 1

----------------------------------------------------------------------------
(* Properties of a call, statement by statement *)

\* a call that nothing interrupts returns or raises what the operation
\* does as a whole, and leaves the mode the operation leaves
StepsAgree ==
    (pc = "returned" /\ ret.exc # "KeyboardInterrupt")
        => (ret = Outcome(op, x, y, mode0) /\ mode = ret.mode)

\* C14: when an exception raised from outside ends an operation after it
\* changed the rounding mode and before its restore step, the mode is the
\* one saved at entry when control leaves the operation.
RestoredWhenInterrupted ==
    (pc = "returned" /\ ret.exc = "KeyboardInterrupt") => mode = mode0

\* the float operations recorded in buf
IsFloatOperation(e) == e.slot # "set_mode"
FloatOperations == SelectSeq(buf, IsFloatOperation)

\* the float operations of one limit of _parse_limits: the conversions
\* when the string is parsed, then the quotient
SlotOperations(v, converted, slot) ==
    IF v.t # "str" THEN <<>>
    ELSE IF converted
    THEN <<Event("numerator", ToNearest), Event("denominator", ToNearest),
           Event(slot, IF slot = "inf" THEN TowardNegative
                       ELSE TowardPositive)>>
    ELSE <<Event(slot, TowardPositive)>>

\* C15: whatever the mode at entry, every float operation for the lower
\* limit executes under TowardNegative and every one for the upper limit
\* under TowardPositive in ~, +, -, *, / and in the conversion of strings,
\* where numerator and denominator are converted under ToNearest; a call
\* that reaches its return has executed them all, the quotient of a
\* repeated string included.
RoundingDirections ==
    (op \in LimitOps \cup {"IReal"}) =>
        /\ \A i \in DOMAIN buf :
            /\ buf[i].slot = "inf" => buf[i].mode = TowardNegative
            /\ buf[i].slot = "sup" => buf[i].mode = TowardPositive
            /\ buf[i].slot \in {"numerator", "denominator"}
                    => buf[i].mode = ToNearest
        /\ (pc = "return" /\ op \in LimitOps)
            => FloatOperations = <<Event("inf", TowardNegative),
                                   Event("sup", TowardPositive)>>
        /\ (pc = "return" /\ op = "IReal")
            => FloatOperations =
                    SlotOperations(x, TRUE, "inf")
                        \o SlotOperations(y, ~PyEq(x, y), "sup")

\* IReal("1/3", "1/3") entered under TowardZero has returned: the fraction
\* was converted once and divided twice
RoundingDirectionsWitness ==
    /\ pc = "returned"
    /\ op = "IReal"
    /\ ret.exc = "none"
    /\ x = PyStr(<<"1", "/", "3">>)
    /\ y = x
    /\ mode0 = TowardZero
    /\ FloatOperations = <<Event("numerator", ToNearest),
                           Event("denominator", ToNearest),
                           Event("inf", TowardNegative),
                           Event("sup", TowardPositive)>>
    /\ ret.iv.inf < ret.iv.sup

----------------------------------------------------------------------------
(* Properties of rational2fraction *)

\* rational2fraction was called on the string buf
ParsedString ==
    pc = "returned" /\ op = "rational2fraction" /\ buf # PyNone

\* every digit of s is 0
AllZero(s) == \A i \in 1..Len(s) : s[i] = "0"

\* the number before the first / of the match m is zero
ZeroNumerator(m) ==
    /\ AllZero(m.frac_before_point)
    /\ IF m.frac_after_point = PyNone THEN TRUE
       ELSE AllZero(m.frac_after_point)

\* some /denominator of the literal s, at whatever depth, is zero: the
\* number it starts with is
RECURSIVE ZeroDenominatorOf(_)
ZeroDenominator(s) ==
    IF _rational_number_pattern(s).denominator = PyNone THEN FALSE
    ELSE ZeroDenominatorOf(_rational_number_pattern(s).denominator)
ZeroDenominatorOf(d) ==
    IF ZeroNumerator(_rational_number_pattern(d)) THEN TRUE
    ELSE ZeroDenominator(d)

\* the number the match m starts with, its sign and exponent applied, as
\* an unreduced fraction of integers
NumberValue(sign, digits, exponent) ==
    IF exponent >= 0 THEN Fraction(sign * PyInt(digits) * Pow10(exponent), 1)
    ELSE Fraction(sign * PyInt(digits), Pow10(-exponent))
NumberOf(m) ==
    NumberValue(
        IF m.frac_sign = <<"-">> THEN -1 ELSE 1,
        IF m.frac_after_point = PyNone THEN m.frac_before_point
        ELSE m.frac_before_point \o m.frac_after_point,
        (IF m.exponent = PyNone THEN 0
         ELSE IF m.exponent_sign = <<"-">> THEN -PyInt(m.exponent)
         ELSE PyInt(m.exponent))
            - (IF m.frac_after_point = PyNone THEN 0
               ELSE Len(m.frac_after_point)))

\* p / q of two unreduced fractions
Over2(p, q) == Fraction(p.num * q.den, p.den * q.num)

\* the exact value of the literal s, a / b / c being a / (b / c), as an
\* unreduced fraction whose denominator may be negative
RECURSIVE LiteralValue(_)
LiteralValueOf(m) ==
    IF m.denominator = PyNone THEN NumberOf(m)
    ELSE Over2(NumberOf(m), LiteralValue(m.denominator))
LiteralValue(s) == LiteralValueOf(_rational_number_pattern(s))

Min2(a, b) == IF a <= b THEN a ELSE b
\* gcd(|a|, |b|) = 1
Coprime(a, b) ==
    IF a = 0 THEN Abs(b) = 1
    ELSE IF b = 0 THEN Abs(a) = 1
    ELSE \A g \in 2..Min2(Abs(a), Abs(b)) : ~(a % g = 0 /\ b % g = 0)

\* (num, den) is the reduced fraction of value v
ReducedOf(f, v) ==
    /\ f.exc = "none"
    /\ f.den > 0
    /\ Coprime(f.num, f.den)
    /\ f.num * v.den = v.num * f.den

\* s is n/d for digit strings n and d
PlainQuotient(m) ==
    /\ m.frac_sign = PyNone
    /\ m.frac_after_point = PyNone
    /\ m.exponent = PyNone
    /\ m.denominator # PyNone
    /\ DigitRun(m.denominator, 1) = Len(m.denominator)

\* C5: on a literal of the grammar none of whose denominators is zero,
\* rational2fraction returns the pair (num, den) with den > 0 and num, den
\* coprime whose quotient is the exact value of the literal, a/b/c being
\* a/(b/c) and signs being allowed on every number; on "n/d" with n, d
\* coprime and d > 0 it returns (n, d).
ReducedFractionReturned ==
    (ParsedString /\ IsLiteral(buf) /\ ~ZeroDenominator(buf)) =>
        /\ ReducedOf(frac, LiteralValue(buf))
        /\ (/\ PlainQuotient(_rational_number_pattern(buf))
            /\ Coprime(PyInt(_rational_number_pattern(buf).frac_before_point),
                       PyInt(_rational_number_pattern(buf).denominator)))
           => frac = Fraction(
                  PyInt(_rational_number_pattern(buf).frac_before_point),
                  PyInt(_rational_number_pattern(buf).denominator))

\* rational2fraction("1/2/5") has returned (5, 2)
ReducedFractionReturnedWitness ==
    /\ ParsedString
    /\ buf = <<"1", "/", "2", "/", "5">>
    /\ frac = Fraction(5, 2)

\* C6: rational2fraction raises ZeroDivisionError exactly on the literals
\* of the grammar that have a zero denominator at some depth; a literal
\* with a zero numerator and no zero denominator gives (0, 1); a string
\* that is no literal of the grammar raises InvalidRationalNumberError.
ZeroDenominatorRaises ==
    ParsedString =>
        /\ frac.exc = "ZeroDivisionError"
                <=> (IsLiteral(buf) /\ ZeroDenominator(buf))
        /\ ~IsLiteral(buf) => frac.exc = "InvalidRationalNumberError"
        /\ (/\ IsLiteral(buf)
            /\ ~ZeroDenominator(buf)
            /\ ZeroNumerator(_rational_number_pattern(buf)))
           => frac = Fraction(0, 1)

\* rational2fraction("1/5/0") has raised ZeroDivisionError
ZeroDenominatorRaisesWitness ==
    /\ ParsedString
    /\ buf = <<"1", "/", "5", "/", "0">>
    /\ frac.exc = "ZeroDivisionError"

====
